---- MODULE Spec2Model ----
(***************************************************************************)
(* A model of the Box container of i11e-box (src/src/index.js).            *)
(*                                                                         *)
(* Strings that the code splits, joins and concatenates (paths, scope,     *)
(* glossary keys and values) are sequences of one-character strings, so    *)
(* that split('.'), join('.') and Array.prototype.toString are computed.   *)
(* A JavaScript value (payload, set/merge argument, get result) is a tree: *)
(* a function from the key paths it holds (sequences of key strings, <<>>  *)
(* for the value itself) to the kind of value found there: "OBJ" for a     *)
(* plain object, or a scalar atom.  Deep equality of two values is then    *)
(* equality of trees.  Arrays are outside the modelled values.             *)
(***************************************************************************)
EXTENDS Naturals, Sequences, FiniteSets, TLC

VARIABLES
  boxes,    \* the Box instances made so far, in order of construction
  parent,   \* parent[i]: the Box that Box i was derived from by new(), 0 if none
  nextSeq,  \* the number of the next identifier shortid generates
  last,     \* the most recent call: its arguments, the receiver before it, its result
  steps     \* calls made so far

vars == <<boxes, parent, nextSeq, last, steps>>

(***************************** bounds *************************************)
MaxSteps == 3

(***************************** strings ************************************)
Dot == "."
Comma == ","

\* the key strings used by the inputs
kA == <<"a">>
kB == <<"b">>
kC == <<"c">>
kAB == <<"a", ".", "b">>
kV == <<"_", "v">>

\* an undefined element of an array of strings (glossary[k] for a missing k)
UndefinedStr == <<"undefined">>

RECURSIVE Split(_)
\* String.prototype.split('.'): "" gives [""]
Split(s) ==
  IF \A i \in 1..Len(s) : s[i] # Dot THEN <<s>>
  ELSE LET i == CHOOSE j \in 1..Len(s) :
                  s[j] = Dot /\ \A k \in 1..(j - 1) : s[k] # Dot
       IN <<SubSeq(s, 1, i - 1)>> \o Split(SubSeq(s, i + 1, Len(s)))

RECURSIVE Join(_, _)
\* Array.prototype.join(sep): undefined elements are joined as ""
Join(segs, sep) ==
  IF Len(segs) = 0 THEN <<>>
  ELSE LET e == IF segs[1] = UndefinedStr THEN <<>> ELSE segs[1]
       IN IF Len(segs) = 1 THEN e
          ELSE e \o <<sep>> \o Join(Tail(segs), sep)

(***************************** values *************************************)
Scalars == {"null", "undef", "true", "false", "n0", "n1", "n2", "s_", "s0", "sx"}

\* "s_" is the empty string, "s0" the string "0", "sx" the string "x"
Truthy(k) == k \in {"OBJ", "true", "n1", "n2", "s0", "sx"}

\* k == false under JavaScript's loose equality (ToNumber of both sides;
\* an object converts to "[object Object]", which is NaN)
LooseEqFalse(k) == k \in {"false", "n0", "s_", "s0"}

TypeOf(k) ==
  CASE k \in {"OBJ", "null"} -> "object"
    [] k = "undef" -> "undefined"
    [] k \in {"true", "false"} -> "boolean"
    [] k \in {"n0", "n1", "n2"} -> "number"
    [] OTHER -> "string"

\* deep-diff's realTypeOf
RealTypeOf(k) == IF k = "null" THEN "null" ELSE TypeOf(k)

Leaf(k) == (<<>> :> k)
Undefined == Leaf("undef")
EmptyObj == Leaf("OBJ")

IsPrefix(p, q) == Len(p) <= Len(q) /\ SubSeq(q, 1, Len(p)) = p

Has(t, p) == p \in DOMAIN t

\* the value found at path p of tree t (p in DOMAIN t)
Sub(t, p) ==
  LET under == {q \in DOMAIN t : IsPrefix(p, q)}
      rel == {SubSeq(q, Len(p) + 1, Len(q)) : q \in under}
  IN [r \in rel |-> t[p \o r]]

\* t without the entry at path p and everything below it
Remove(t, p) ==
  [q \in {q \in DOMAIN t : ~IsPrefix(p, q)} |-> t[q]]

\* t with value v stored at path p; the proper prefixes of p become (or stay)
\* plain objects
Graft(t, p, v) ==
  LET kept == {q \in DOMAIN t : ~IsPrefix(p, q)}
      pre == {SubSeq(p, 1, i) : i \in 0..(Len(p) - 1)}
      new == {p \o r : r \in DOMAIN v}
  IN [q \in kept \cup pre \cup new |->
        IF q \in new THEN v[SubSeq(q, Len(p) + 1, Len(q))]
        ELSE IF q \in pre THEN "OBJ"
        ELSE t[q]]

TopKeys(t) == {p[1] : p \in {q \in DOMAIN t : Len(q) >= 1}}

\* object literals of the inputs
Obj1(k, v) == Graft(EmptyObj, <<k>>, v)
Obj2(k1, v1, k2, v2) == Graft(Obj1(k1, v1), <<k2>>, v2)

(***************************** object-path ********************************)
\* objectPath.get(obj, path): path is a string here; an empty path gives obj
ObjectPathGet(obj, path) ==
  IF Len(path) = 0 THEN obj
  ELSE IF Has(obj, Split(path)) THEN Sub(obj, Split(path))
  ELSE Undefined

\* objectPath.has(obj, path): every segment is an own property
ObjectPathHas(obj, path) == Has(obj, Split(path))

\* objectPath.set cannot go through a value that is neither an object nor
\* undefined: assigning a property of null or of a primitive throws
SetThrows(obj, path) ==
  /\ Len(path) > 0
  /\ \E i \in 0..(Len(Split(path)) - 1) :
        LET q == SubSeq(Split(path), 1, i)
        IN Has(obj, q) /\ obj[q] \notin {"OBJ", "undef"}

\* objectPath.set(obj, path, value): creates the missing intermediate objects
ObjectPathSet(obj, path, value) ==
  IF Len(path) = 0 \/ SetThrows(obj, path) THEN obj
  ELSE Graft(obj, Split(path), value)

\* objectPath.del(obj, path)
ObjectPathDel(obj, path) ==
  IF Len(path) = 0 \/ ~Has(obj, Split(path)) THEN obj
  ELSE Remove(obj, Split(path))

(***************************** tags ***************************************)
HasTag(box, name) == name \in DOMAIN box.tags

\* getTag(SCOPE) is truthy: the tag is set and is not the empty string
ScopeSet(box) == HasTag(box, "scope") /\ Len(box.tags["scope"]) > 0

\* getGlossaryTag() is truthy
GlossarySet(box) == HasTag(box, "glossary")

(***************************** paths **************************************)
\* a path argument: a dotted string, or an array of segments
StrPath(s) == [arr |-> FALSE, s |-> s, segs |-> <<>>]
ArrPath(segs) == [arr |-> TRUE, s |-> <<>>, segs |-> segs]

\* scope + "." + path: an array is converted by Array.prototype.toString
Scoped(box, path) ==
  IF ScopeSet(box)
  THEN StrPath(box.tags["scope"] \o <<Dot>>
                 \o (IF path.arr THEN Join(path.segs, Comma) ELSE path.s))
  ELSE path

\* the segment pathMap pushes for keys[i]
MappedKey(box, keys, i) ==
  LET newKeys == Join(SubSeq(keys, 1, i), Dot)
  IN IF ~GlossarySet(box) \/ newKeys \notin DOMAIN box.tags["glossary"]
     THEN keys[i]
     ELSE IF keys[i] \in DOMAIN box.tags["glossary"]
          THEN box.tags["glossary"][keys[i]]
          ELSE UndefinedStr

PathMap(box, path) ==
  LET keys == IF path.arr THEN path.segs ELSE Split(path.s)
      newPath == [i \in 1..Len(keys) |-> MappedKey(box, keys, i)]
  IN Join(newPath, Dot)

\* the resolved path the accessors hand to object-path
Resolve(box, path) == PathMap(box, Scoped(box, path))

(***************************** accessors **********************************)
\* !path: the empty string is falsy, an array never is
GetThrows(path) == ~path.arr /\ Len(path.s) = 0

BoxGet(box, path) == ObjectPathGet(box.payload, Resolve(box, path))

BoxHas(box, path) ==
  LET v == ObjectPathGet(box.payload, Resolve(box, path))
  IN Truthy(v[<<>>]) /\ ~LooseEqFalse(v[<<>>])

BoxSetThrows(box, path) == SetThrows(box.payload, Resolve(box, path))

\* a set that forgets the scope tag
BoxSetUnscoped(box, path, value) ==
  [box EXCEPT !.payload = ObjectPathSet(box.payload, PathMap(box, path), value)]

BoxSet(box, path, value) ==
  [box EXCEPT !.payload = ObjectPathSet(box.payload, Resolve(box, path), value)]

\* a del that forgets the scope tag
BoxDelUnscoped(box, path) ==
  IF ObjectPathHas(box.payload, PathMap(box, path))
  THEN [box EXCEPT !.payload = ObjectPathDel(box.payload, PathMap(box, path))]
  ELSE box

BoxDel(box, path) ==
  IF ObjectPathHas(box.payload, Resolve(box, path))
  THEN [box EXCEPT !.payload = ObjectPathDel(box.payload, Resolve(box, path))]
  ELSE box

(***************************** diff and merge ***************************)
\* deep-diff descends to path q only through plain objects on both sides
Reached(lhs, rhs, q) ==
  \A i \in 0..(Len(q) - 1) :
     LET r == SubSeq(q, 1, i)
     IN Has(lhs, r) /\ Has(rhs, r) /\ lhs[r] = "OBJ" /\ rhs[r] = "OBJ"

\* the kind of the change record deep-diff emits at path q, "none" for no record
ChangeKind(lhs, rhs, q) ==
  IF ~Has(lhs, q) THEN "N"
  ELSE IF ~Has(rhs, q) THEN "D"
  ELSE IF RealTypeOf(lhs[q]) # RealTypeOf(rhs[q]) THEN "E"
  ELSE IF lhs[q] = "OBJ" THEN "none"
  ELSE IF lhs[q] # rhs[q] THEN "E"
  ELSE "none"

\* diff(lhs, rhs): the change records, each with its kind and its path (the
\* records lie at pairwise unrelated paths, so their order does not matter)
Diff(lhs, rhs) ==
  {[kind |-> ChangeKind(lhs, rhs, q), path |-> q] :
     q \in {r \in DOMAIN lhs \cup DOMAIN rhs :
              Reached(lhs, rhs, r) /\ ChangeKind(lhs, rhs, r) # "none"}}

\* applyChange(target, source, change); a record for the whole value has no
\* path, and applying it fails without touching the target
ApplyChange(target, source, change) ==
  IF target[<<>>] # "OBJ" \/ Len(change.path) = 0 THEN target
  ELSE IF change.kind = "D" THEN Remove(target, change.path)
  ELSE Graft(target, change.path, Sub(source, change.path))

\* a merge that applies the deletions too
SkipNothing(kind) == FALSE

\* merge: "if (ds[i].kind === 'D') continue"
SkipChange(kind) == kind = "D"

RECURSIVE ApplyAll(_, _, _)
ApplyAll(target, source, changes) ==
  IF changes = {} THEN target
  ELSE LET c == CHOOSE x \in changes : TRUE
           t == IF SkipChange(c.kind) THEN target
                ELSE ApplyChange(target, source, c)
       IN ApplyAll(t, source, changes \ {c})

BoxMerge(box, other) ==
  [box EXCEPT !.payload = ApplyAll(box.payload, other, Diff(box.payload, other))]

(***************************** tag mutators *******************************)
SetEntry(f, k, v) == [n \in DOMAIN f \cup {k} |-> IF n = k THEN v ELSE f[n]]

\* an addTag that stores the new glossary as given
TranslateNothing(glossary, tag) == tag

\* addTag's loop over the words of the new glossary
TranslateTag(glossary, tag) ==
  [word \in DOMAIN tag |->
     IF tag[word] \in DOMAIN glossary THEN glossary[tag[word]] ELSE tag[word]]

BoxAddTag(box, name, tag) ==
  IF name = "glossary" /\ GlossarySet(box)
  THEN [box EXCEPT !.tags = SetEntry(box.tags, name,
                                     TranslateTag(box.tags["glossary"], tag))]
  ELSE [box EXCEPT !.tags = SetEntry(box.tags, name, tag)]

BoxRemoveTag(box, name) ==
  [box EXCEPT !.tags = [n \in DOMAIN box.tags \ {name} |-> box.tags[n]]]

\* getId: the id tag when it is set and truthy, else the sequence
BoxGetId(box) ==
  IF HasTag(box, "id") /\ Len(box.tags["id"]) > 0 THEN box.tags["id"]
  ELSE box.seq

(***************************** construction *******************************)
\* shortid.generate(): the n-th identifier
SeqId(n) == [i \in 1..n |-> "#"]

RECURSIVE ExtendKeys(_, _, _)
\* extend(true, target, source) on payload values: keys with an undefined
\* value are not copied, plain objects are cloned key by key
ExtendDeep(target, source) ==
  LET base == IF target[<<>>] = "OBJ" THEN target ELSE EmptyObj
  IN IF source[<<>>] # "OBJ" THEN base
     ELSE ExtendKeys(base, source, TopKeys(source))

ExtendKeys(base, source, names) ==
  IF names = {} THEN base
  ELSE LET name == CHOOSE n \in names : TRUE
           copy == Sub(source, <<name>>)
           src == IF Has(base, <<name>>) THEN Sub(base, <<name>>) ELSE Undefined
           clone == IF src[<<>>] = "OBJ" THEN src ELSE EmptyObj
           next == IF copy[<<>>] = "OBJ"
                   THEN Graft(base, <<name>>, ExtendDeep(clone, copy))
                   ELSE IF copy[<<>>] # "undef"
                   THEN Graft(base, <<name>>, copy)
                   ELSE base
       IN ExtendKeys(next, source, names \ {name})

\* extend(true, target, source) on tag mappings: the glossary is the one tag
\* whose value is a plain object, merged key by key
ExtendTags(target, source) ==
  [n \in DOMAIN target \cup DOMAIN source |->
     IF n \notin DOMAIN source THEN target[n]
     ELSE IF n = "glossary" /\ n \in DOMAIN target
     THEN [w \in DOMAIN target[n] \cup DOMAIN source[n] |->
             IF w \in DOMAIN source[n] THEN source[n][w] ELSE target[n][w]]
     ELSE source[n]]

\* new Box(content, tags) for a content that is no Box
NewBox(content, tags, seq) ==
  [payload |-> IF TypeOf(content[<<>>]) = "object" THEN content
               ELSE Obj1(kV, content),
   tags |-> tags,
   seq |-> seq]

\* new Box(content, tags) for a content that is a Box: extend(true, this, content)
\* with this._payload = content and this._tags = tags
CopyBox(content, tags) ==
  [payload |-> IF content.payload[<<>>] = "OBJ"
               THEN ExtendDeep(EmptyObj, content.payload)
               ELSE content.payload,
   tags |-> ExtendTags(tags, content.tags),
   seq |-> content.seq]

\* a new() that keeps the fresh Box's own sequence
DerivedSeqOfNew(this, newBox) == newBox.seq

\* Box.new: "newBox._seq = this._seq"
DerivedSeq(this, newBox) == this.seq

(***************************** inputs *************************************)
NoTags == <<>>

\* glossaries: Glossary1 has a key that is a dotted prefix
Glossary1 == (kAB :> kC) @@ (kB :> kA)
Glossary2 == (kC :> kA) @@ (kB :> kC)

ScalarContents == {Leaf(k) : k \in {"null", "undef", "n1", "sx", "false"}}

ObjectContents ==
  { Obj2(kA, Leaf("n1"), kB, Leaf("n2")),
    Obj1(kA, Obj1(kB, Obj1(kC, Leaf("n1")))) }

Contents == ScalarContents \cup ObjectContents

DerivedContents == {Leaf("n1"), Obj1(kC, Leaf("n2"))}

TagArgs == {NoTags, ("scope" :> kA)}

CopyTagArgs == {NoTags, ("id" :> kA)}

Paths ==
  { StrPath(kA), StrPath(kC), StrPath(kAB), ArrPath(<<kB, kC>>) }

SetValues == {Leaf("n1"), Leaf("s0"), Obj1(kC, Leaf("n2"))}

MergeValues ==
  { Obj2(kA, Leaf("n2"), kC, Leaf("n1")),
    Obj1(kC, Leaf("n1")),
    Obj1(kA, Obj1(kC, Leaf("n2"))),
    Leaf("n1") }

TagValues ==
  { <<"scope", kAB>>, <<"id", kC>>,
    <<"glossary", Glossary1>>, <<"glossary", Glossary2>> }

TagNames == {"scope", "glossary", "id"}

(***************************** operations *********************************)
Init ==
  /\ boxes = <<>>
  /\ parent = <<>>
  /\ nextSeq = 1
  /\ last = [op |-> "none"]
  /\ steps = 0

Step == steps < MaxSteps /\ steps' = steps + 1

Ids == 1..Len(boxes)

\* new Box(content, tags) with a scalar or a plain object: the first Box; the
\* others are made from the Boxes there are, by copy and by new()
Construct ==
  /\ Step
  /\ boxes = <<>>
  /\ \E c \in Contents, t \in TagArgs :
       /\ boxes' = Append(boxes, NewBox(c, t, SeqId(nextSeq)))
       /\ parent' = Append(parent, 0)
       /\ last' = [op |-> "construct", b |-> Len(boxes) + 1, content |-> c,
                   targ |-> t]
  /\ nextSeq' = nextSeq + 1

\* new Box(box, tags): hasT is whether a tags argument is given
Copy ==
  /\ Step
  /\ \E i \in Ids, t \in CopyTagArgs :
       LET new == CopyBox(boxes[i], t)
       IN /\ boxes' = Append(boxes, new)
          /\ parent' = Append(parent, 0)
          /\ last' = [op |-> "copy", b |-> Len(boxes) + 1, src |-> i,
                      targ |-> t, targAfter |-> new.tags]
  /\ nextSeq' = nextSeq + 1

\* box.new(content, tags) with a content that is no Box
Derive ==
  /\ Step
  /\ \E i \in Ids, c \in DerivedContents, t \in TagArgs :
       LET made == NewBox(c, t, SeqId(nextSeq))
       IN /\ boxes' = Append(boxes, [made EXCEPT !.seq = DerivedSeq(boxes[i], made)])
          /\ parent' = Append(parent, i)
          /\ last' = [op |-> "new", b |-> Len(boxes) + 1, src |-> i]
  /\ nextSeq' = nextSeq + 1

\* box.new(otherBox, tags)
DeriveFromBox ==
  /\ Step
  /\ \E i \in Ids, j \in Ids, t \in CopyTagArgs :
       LET made == CopyBox(boxes[j], t)
       IN /\ boxes' = Append(boxes, [made EXCEPT !.seq = DerivedSeq(boxes[i], made)])
          /\ parent' = Append(parent, i)
          /\ last' = [op |-> "new", b |-> Len(boxes) + 1, src |-> i]
  /\ nextSeq' = nextSeq + 1

Set ==
  /\ Step
  /\ \E i \in Ids, p \in Paths, x \in SetValues :
       /\ boxes' = [boxes EXCEPT ![i] = BoxSet(boxes[i], p, x)]
       /\ last' = [op |-> "set", b |-> i, pre |-> boxes[i], path |-> p,
                   val |-> x, err |-> BoxSetThrows(boxes[i], p)]
  /\ UNCHANGED <<parent, nextSeq>>

Get ==
  /\ Step
  /\ \E i \in Ids, p \in Paths :
       last' = [op |-> "get", b |-> i, pre |-> boxes[i], path |-> p,
                err |-> GetThrows(p),
                res |-> IF GetThrows(p) THEN Undefined ELSE BoxGet(boxes[i], p)]
  /\ UNCHANGED <<boxes, parent, nextSeq>>

HasOp ==
  /\ Step
  /\ \E i \in Ids, p \in Paths :
       last' = [op |-> "has", b |-> i, pre |-> boxes[i], path |-> p,
                res |-> BoxHas(boxes[i], p)]
  /\ UNCHANGED <<boxes, parent, nextSeq>>

Del ==
  /\ Step
  /\ \E i \in Ids, p \in Paths :
       /\ boxes' = [boxes EXCEPT ![i] = BoxDel(boxes[i], p)]
       /\ last' = [op |-> "del", b |-> i, pre |-> boxes[i], path |-> p]
  /\ UNCHANGED <<parent, nextSeq>>

Merge ==
  /\ Step
  /\ \E i \in Ids, o \in MergeValues :
       /\ boxes' = [boxes EXCEPT ![i] = BoxMerge(boxes[i], o)]
       /\ last' = [op |-> "merge", b |-> i, pre |-> boxes[i], val |-> o]
  /\ UNCHANGED <<parent, nextSeq>>

AddTag ==
  /\ Step
  /\ \E i \in Ids, nv \in TagValues :
       /\ boxes' = [boxes EXCEPT ![i] = BoxAddTag(boxes[i], nv[1], nv[2])]
       /\ last' = [op |-> "addTag", b |-> i, pre |-> boxes[i], name |-> nv[1],
                   tag |-> nv[2]]
  /\ UNCHANGED <<parent, nextSeq>>

RemoveTag ==
  /\ Step
  /\ \E i \in Ids, n \in TagNames :
       /\ boxes' = [boxes EXCEPT ![i] = BoxRemoveTag(boxes[i], n)]
       /\ last' = [op |-> "removeTag", b |-> i, pre |-> boxes[i], name |-> n]
  /\ UNCHANGED <<parent, nextSeq>>

PathMapOp ==
  /\ Step
  /\ \E i \in Ids, p \in Paths :
       last' = [op |-> "pathMap", b |-> i, pre |-> boxes[i], path |-> p,
                res |-> PathMap(boxes[i], p)]
  /\ UNCHANGED <<boxes, parent, nextSeq>>

Next ==
  \/ Construct
  \/ Copy
  \/ Derive
  \/ DeriveFromBox
  \/ Set
  \/ Get
  \/ HasOp
  \/ Del
  \/ Merge
  \/ AddTag
  \/ RemoveTag
  \/ PathMapOp

Spec == Init /\ [][Next]_vars

(***************************** properties *********************************)
Now(i) == boxes[i]

\* the proper non-empty prefixes of key path q
Ancestors(q) == {SubSeq(q, 1, i) : i \in 1..(Len(q) - 1)}

\* C1: a Box constructed from a scalar v has the payload {_v: v}, and (with no
\* scope or glossary given) get('_v') returns v; the payload is never a bare
\* scalar or null.
C1_ScalarIsWrapped ==
  (last.op = "construct" /\ last.content[<<>>] # "OBJ")
    => /\ Now(last.b).payload = Obj1(kV, last.content)
       /\ last.targ = NoTags => BoxGet(Now(last.b), StrPath(kV)) = last.content

C3_MergeKeepsEveryKey ==
  last.op = "merge"
    => \A q \in DOMAIN last.pre.payload :
         q \notin DOMAIN last.val => q \in DOMAIN Now(last.b).payload

\* C3 amended: after merge(other), every key path of the payload that is absent
\* from other is still present, unless one of its ancestor keys holds a
\* non-object value in other (the edit record of that ancestor replaces the
\* subtree); top-level keys always survive.
C3_MergeKeepsKeys ==
  last.op = "merge"
    => \A q \in DOMAIN last.pre.payload :
         (/\ q \notin DOMAIN last.val
          /\ \A r \in Ancestors(q) : r \in DOMAIN last.val => last.val[r] = "OBJ")
           => q \in DOMAIN Now(last.b).payload

\* C3 witness: {a:1, b:2} merged with {c:3} keeps a and b and gains c
C3_Witness ==
  /\ last.op = "merge"
  /\ last.pre.payload = Obj2(kA, Leaf("n1"), kB, Leaf("n2"))
  /\ last.val = Obj1(kC, Leaf("n1"))
  /\ Now(last.b).payload
       = Graft(Obj2(kA, Leaf("n1"), kB, Leaf("n2")), <<kC>>, Leaf("n1"))

\* C4: a Box constructed from another Box has a payload and tags that deep-equal
\* the original's (the half of the claim that the copy then shares no state with
\* the original is not what fails).
C4_CopyDeepEquals ==
  last.op = "copy"
    => /\ Now(last.b).payload = Now(last.src).payload
       /\ Now(last.b).tags = Now(last.src).tags

\* the path s.p of C5: the segments of the scope followed by those of p
ScopedBySpec(scope, path) ==
  IF path.arr THEN ArrPath(Split(scope) \o path.segs)
  ELSE StrPath(scope \o <<Dot>> \o path.s)

\* C5: with a scope tag s, get, set, has and del at a path p (a dotted string or
\* a sequence of segments) behave as the same operation at the path s.p on a Box
\* with the same payload and no scope tag.
C5_ScopeIsPrefix ==
  (last.op \in {"get", "set", "has", "del"} /\ ScopeSet(last.pre))
    => LET plain == BoxRemoveTag(last.pre, "scope")
           sp == ScopedBySpec(last.pre.tags["scope"], last.path)
       IN CASE last.op = "get" -> last.res = BoxGet(plain, sp)
            [] last.op = "has" -> last.res = BoxHas(plain, sp)
            [] last.op = "set" ->
                 Now(last.b).payload = BoxSet(plain, sp, last.val).payload
            [] last.op = "del" ->
                 Now(last.b).payload = BoxDel(plain, sp).payload

RECURSIVE Root(_)
\* the Box at the start of the chain of derivations that made Box i
Root(i) == IF parent[i] = 0 THEN i ELSE Root(parent[i])

SpecMappedKey(box, keys, i) ==
  LET newKeys == Join(SubSeq(keys, 1, i), Dot)
  IN IF GlossarySet(box) /\ newKeys \in DOMAIN box.tags["glossary"]
     THEN box.tags["glossary"][newKeys]
     ELSE keys[i]

\* C8: pathMap replaces each segment whose dotted prefix is a glossary key by
\* the glossary's value for that prefix key, keeps the others, and rejoins with
\* '.'; without a glossary it is the identity; it never modifies the glossary.
C8_PathMapByPrefix ==
  last.op = "pathMap"
    => LET keys == IF last.path.arr THEN last.path.segs ELSE Split(last.path.s)
       IN /\ last.res
               = Join([i \in 1..Len(keys) |-> SpecMappedKey(last.pre, keys, i)], Dot)
          /\ ~GlossarySet(last.pre) => last.res = Join(keys, Dot)
          /\ Now(last.b).tags = last.pre.tags

\* C9: new Box(box, t) ignores t: the new Box's tags deep-equal the source's,
\* and t is not modified.
C9_CopyIgnoresTagsArgument ==
  last.op = "copy"
    => /\ Now(last.b).tags = Now(last.src).tags
       /\ last.targAfter = last.targ

\* C10: addTag('glossary', g) with a glossary old already set stores g with every
\* value that is a key of old replaced by old's value for it; with no glossary
\* set g is stored as it is; any other tag is stored unchanged.  The other tags
\* are left alone.
C10_AddTagLayersGlossary ==
  last.op = "addTag"
    => LET old == last.pre.tags
           new == Now(last.b).tags
           g == last.tag
       IN /\ DOMAIN new = DOMAIN old \cup {last.name}
          /\ \A n \in DOMAIN old \ {last.name} : new[n] = old[n]
          /\ IF last.name = "glossary" /\ "glossary" \in DOMAIN old
             THEN /\ DOMAIN new["glossary"] = DOMAIN g
                  /\ \A w \in DOMAIN g :
                       new["glossary"][w]
                         = IF g[w] \in DOMAIN old["glossary"]
                           THEN old["glossary"][g[w]]
                           ELSE g[w]
             ELSE new[last.name] = g

\* C10 witness: a glossary added over an existing one, with an entry rewritten
C10_Witness ==
  /\ last.op = "addTag" /\ last.name = "glossary"
  /\ HasTag(last.pre, "glossary")
  /\ Now(last.b).tags["glossary"] # last.tag
  /\ \E w \in DOMAIN last.tag :
       /\ last.tag[w] \in DOMAIN last.pre.tags["glossary"]
       /\ Now(last.b).tags["glossary"][w] = last.pre.tags["glossary"][last.tag[w]]
====
